---- MODULE Spec2Model ----
(***************************************************************************)
(* Model of ReclameAquiScraper (src/src/crawlers/crawler_reclame_aqui.py): *)
(* one scraper instance, its fields, and the sequential steps of           *)
(* start / paginated_search.  The remote API is the environment: every     *)
(* fetch ends in HTTP 200 with some JSON object, in a non-200 status, or   *)
(* in a requests.RequestException.                                         *)
(***************************************************************************)
EXTENDS Integers, Sequences, FiniteSets, TLC

\* ---------------------------------------------------------------- bounds
MaxPages == 2          \* largest pagination.pages the API reports

\* ------------------------------------------------------ program constants
DefaultPage == 1               \* __init__: self.page = 1
DefaultResultsPerPage == 50    \* __init__: self.results_per_page = 50
DefaultTypeRank == "best"      \* __init__: self.type_rank = "best"
DefaultKeyword == ""           \* __init__: self.keyword = ""
DefaultTotalPages == 1         \* get_total_pages: fallback page count
RetryTotal == 3                \* _configure_session: Retry(total=3, ...)
StatusForcelist == {403, 429, 500, 502, 503, 504}

Keywords == {"banks", "whey"}
Outcomes == {"ok", "non200", "exc"}
NoPages == -1                  \* ghost value: the probe reported no page count
NoResponse == 0                \* an HTTP attempt that ended without a response
\* What one HTTP attempt can end in: a status line, or a connection error.
AttemptResults == {200, 404, 503, NoResponse}

\* ---------------------------------------------------------------- envelope
\* self.content: None, or the decoded JSON object of a 200 response with an
\* optional "companies" list and an optional "pagination" object holding an
\* optional "pages" integer.
None ==
  [present |-> FALSE, hasCompanies |-> FALSE, companies |-> <<>>,
   hasPagination |-> FALSE, hasPages |-> FALSE, pages |-> 0]

\* The "companies" arrays the API answers with: an empty page, a page of one
\* record and a page of two.
CompanyLists == {<<>>, <<"coil">>, <<"acme", "bolt">>}

Bodies ==
  {b \in [present : {TRUE}, hasCompanies : BOOLEAN, companies : CompanyLists,
          hasPagination : BOOLEAN, hasPages : BOOLEAN, pages : 0..MaxPages] :
     /\ (~b.hasCompanies => b.companies = <<>>)
     /\ (~b.hasPagination => ~b.hasPages)
     /\ (~b.hasPages => b.pages = 0)}

\* Python truthiness of self.content: None and the empty dict are falsy.
Truthy(c) == c.present /\ (c.hasCompanies \/ c.hasPagination)

\* 200 responses whose JSON is not of the documented shape: a non-empty
\* array, an empty array, a number, an object with "pagination": null and
\* an object with "companies": null.
MalformedBodies ==
  {[present |-> TRUE, shape |-> sh, hasCompanies |-> FALSE, companies |-> <<>>,
    hasPagination |-> FALSE, hasPages |-> FALSE, pages |-> 0]
     : sh \in {"array", "emptyArray", "number"}}
  \cup
  {[present |-> TRUE, shape |-> "nullPagination", hasCompanies |-> hc,
    companies |-> IF hc THEN <<"coil">> ELSE <<>>,
    hasPagination |-> TRUE, hasPages |-> FALSE, pages |-> 0]
     : hc \in BOOLEAN}
  \cup
  {[present |-> TRUE, shape |-> "nullCompanies", hasCompanies |-> TRUE,
    companies |-> <<>>,
    hasPagination |-> FALSE, hasPages |-> FALSE, pages |-> 0]}

AnyBodies == Bodies \cup MalformedBodies

Shape(c) == IF "shape" \in DOMAIN c THEN c.shape ELSE "object"

\* Python truthiness of any decoded JSON value.
TruthyJson(c) ==
  CASE Shape(c) = "object" -> Truthy(c)
    [] Shape(c) = "emptyArray" -> FALSE
    [] OTHER -> TRUE

VARIABLES
  page, results_per_page, keyword, type_rank, content,   \* fields of self
  pc,                  \* position: "idle", "probe", "loop", "done", "raised"
  all_companies,       \* local of paginated_search
  total_pages,         \* local of paginated_search
  nextPage,            \* next value of the loop variable `page` of range()
  ret,                 \* return value of the last search_companies call
  requests,            \* history: requests issued in the current search
  outcomes,            \* history: outcome of each fetch of the current search
  fetched,             \* history: companies of the loop fetches that succeeded
  reported,            \* history: pagination.pages of the probe response
  lastOk,              \* history: body of the most recent fetch that got a 200
  attempts,            \* HTTP attempts made by the current (or last) fetch
  lastStatus,          \* result of the most recent HTTP attempt
  inFlight,            \* the current fetch is between two attempts
  \* a second scraper, constructed anew for each search and given the same
  \* keyword and the same fetch outcomes
  page2, keyword2, content2, pc2, all_companies2, total_pages2, nextPage2,
  requests2,
  paired               \* both scrapers have received the same outcomes so far

scraperVars == <<page, results_per_page, keyword, type_rank, content, pc,
                 all_companies, total_pages, nextPage, ret, requests, outcomes,
                 fetched, reported, lastOk>>
httpVars == <<attempts, lastStatus, inFlight>>
twinVars == <<page2, keyword2, content2, pc2, all_companies2, total_pages2,
              nextPage2, requests2, paired>>
vars == <<scraperVars, httpVars, twinVars>>

\* ------------------------------------------------------------- operations
\* The URL of search_companies, as the tuple of its path segments.
BuildUrl(rank, kw, pg, size) ==
  [rankKind |-> rank, keyword |-> kw, page |-> pg, pageSize |-> size]

\* Variant of search_companies that forgets the envelope on a failed fetch.
search_companies_clears(c, outcome, body) ==
  IF outcome = "ok"
    THEN [content |-> body, ret |-> body, raised |-> FALSE]
    ELSE [content |-> None, ret |-> None, raised |-> FALSE]

\* Variant of search_companies without the except clause.
search_companies_uncaught(c, outcome, body) ==
  IF outcome = "ok"
    THEN [content |-> body, ret |-> body, raised |-> FALSE]
    ELSE [content |-> c, ret |-> None, raised |-> (outcome = "exc")]

\* Variant of search_companies that updates the held dict with the new body
\* instead of replacing it.
search_companies_merges(c, outcome, body) ==
  LET m == [present |-> TRUE,
            hasCompanies |-> body.hasCompanies \/ c.hasCompanies,
            companies |-> IF body.hasCompanies THEN body.companies
                          ELSE c.companies,
            hasPagination |-> body.hasPagination \/ c.hasPagination,
            hasPages |-> body.hasPages \/ (~body.hasPagination /\ c.hasPages),
            pages |-> IF body.hasPagination THEN body.pages ELSE c.pages]
  IN IF outcome = "ok"
       THEN [content |-> m, ret |-> m, raised |-> FALSE]
       ELSE [content |-> c, ret |-> None, raised |-> FALSE]

\* search_companies: the new self.content, the value returned, and whether
\* an exception leaves the method.
search_companies(c, outcome, body) ==
  IF outcome = "ok"
    THEN [content |-> body, ret |-> body, raised |-> FALSE]
    ELSE [content |-> c, ret |-> None, raised |-> FALSE]

\* Variant of get_companies_data with the test on self.content inverted.
get_companies_data_inverted(c) ==
  IF ~Truthy(c)
    THEN (IF c.hasCompanies THEN c.companies ELSE <<>>)
    ELSE <<>>

get_companies_data(c) ==
  IF Truthy(c)
    THEN (IF c.hasCompanies THEN c.companies ELSE <<>>)
    ELSE <<>>

get_total_pages(c) ==
  IF Truthy(c) /\ c.hasPagination
    THEN (IF c.hasPages THEN c.pages ELSE DefaultTotalPages)
    ELSE DefaultTotalPages

\* Variant of list.extend that assigns the new page instead of appending it.
ExtendReplace(acc, xs) == xs

\* Variant of list.extend that puts the new page in front.
ExtendFront(acc, xs) == xs \o acc

\* list.extend
Extend(acc, xs) == acc \o xs

\* Variant of the retry policy that retries every response but a 200.
ShouldRetryAnyFailure(s, n) == s # 200 /\ n < RetryTotal

\* The session's retry policy, Retry(total=3, status_forcelist=[...]): an
\* attempt that ends in a listed status or without a response is retried
\* while fewer than `total` retries have been used.
ShouldRetry(s, n) ==
  (s \in StatusForcelist \/ s = NoResponse) /\ n < RetryTotal

\* What self.http.get hands to search_companies after the last attempt: a
\* 200 response, a response with another status, or a RequestException
\* (RetryError once the retries on a listed status are used up,
\* ConnectionError when no response came).
HttpOutcome(s) ==
  IF s = 200 THEN "ok"
  ELSE IF s \in StatusForcelist \/ s = NoResponse THEN "exc"
  ELSE "non200"

\* get_companies_data, or the extend of its result, raises: .get on a value
\* that is not a dict, or extend(None).
get_companies_data_raises(c) ==
  TruthyJson(c) /\ Shape(c) \in {"array", "number", "nullCompanies"}

\* get_total_pages raises: `in` on a number, or .get on a null pagination.
get_total_pages_raises(c) ==
  TruthyJson(c) /\ Shape(c) \in {"number", "nullPagination"}

\* Variant of the loop header that reads the page count again on each pass.
LoopBoundReread(total, c) == get_total_pages(c)

\* for page in range(1, total_pages + 1): the range is built once.
LoopBound(total, c) == total

\* Variant of the loop that counts pages from 0.
LoopPageZeroBased(n) == n - 1

\* self.page = page
LoopPage(n) == n

\* The page the probe fetch asks for: paginated_search does not touch
\* self.page before its first search_companies call.
ProbePage(pg) == pg

\* pagination.pages of a probe response, when it reports one.
ReportedPages(outcome, body) ==
  IF outcome = "ok" /\ body.hasPagination /\ body.hasPages
    THEN body.pages ELSE NoPages

\* ------------------------------------------------------------------- Init
Init ==
  /\ page = DefaultPage
  /\ results_per_page = DefaultResultsPerPage
  /\ keyword = DefaultKeyword
  /\ type_rank = DefaultTypeRank
  /\ content = None
  /\ pc = "idle"
  /\ all_companies = <<>>
  /\ total_pages = 0
  /\ nextPage = 1
  /\ ret = None
  /\ requests = <<>>
  /\ outcomes = <<>>
  /\ fetched = <<>>
  /\ reported = NoPages
  /\ lastOk = None
  /\ attempts = 0
  /\ lastStatus = NoResponse
  /\ inFlight = FALSE
  /\ page2 = DefaultPage
  /\ keyword2 = DefaultKeyword
  /\ content2 = None
  /\ pc2 = "idle"
  /\ all_companies2 = <<>>
  /\ total_pages2 = 0
  /\ nextPage2 = 1
  /\ requests2 = <<>>
  /\ paired = TRUE

\* ------------------------------------------------------------------ steps
\* start(keyword) up to the first statement of paginated_search.
StartStep(k) ==
  /\ pc \in {"idle", "done"}
  /\ keyword' = k
  /\ all_companies' = <<>>
  /\ pc' = "probe"
  /\ total_pages' = 0
  /\ nextPage' = 1
  /\ ret' = None
  /\ requests' = <<>>
  /\ outcomes' = <<>>
  /\ fetched' = <<>>
  /\ reported' = NoPages
  /\ UNCHANGED <<page, results_per_page, type_rank, content, lastOk>>

\* self.search_companies(); total_pages = self.get_total_pages()
ProbeResult(c, outcome, body) ==
  LET r == search_companies(c, outcome, body) IN
    [content |-> r.content, ret |-> r.ret,
     raised |-> r.raised \/ get_total_pages_raises(r.content),
     total |-> get_total_pages(r.content)]

\* self.search_companies(); all_companies.extend(self.get_companies_data())
IterateResult(c, acc, outcome, body) ==
  LET r == search_companies(c, outcome, body) IN
    [content |-> r.content, ret |-> r.ret,
     raised |-> r.raised \/ get_companies_data_raises(r.content),
     all |-> Extend(acc, get_companies_data(r.content))]

ProbeStep(outcome, body) ==
  /\ pc = "probe"
  /\ LET r == ProbeResult(content, outcome, body) IN
       /\ page' = ProbePage(page)
       /\ requests' = Append(requests,
             BuildUrl(type_rank, keyword, ProbePage(page), results_per_page))
       /\ outcomes' = Append(outcomes, outcome)
       /\ reported' = ReportedPages(outcome, body)
       /\ lastOk' = IF outcome = "ok" THEN body ELSE lastOk
       /\ content' = r.content
       /\ ret' = r.ret
       /\ total_pages' = IF r.raised THEN total_pages ELSE r.total
       /\ pc' = IF r.raised THEN "raised" ELSE "loop"
  /\ nextPage' = 1
  /\ UNCHANGED <<results_per_page, keyword, type_rank, all_companies, fetched>>

\* One pass of the for loop: self.page = page; self.search_companies();
\* all_companies.extend(self.get_companies_data())
IterateStep(outcome, body) ==
  /\ pc = "loop"
  /\ nextPage <= total_pages
  /\ LET r == IterateResult(content, all_companies, outcome, body) IN
       /\ page' = LoopPage(nextPage)
       /\ requests' = Append(requests,
             BuildUrl(type_rank, keyword, LoopPage(nextPage), results_per_page))
       /\ outcomes' = Append(outcomes, outcome)
       /\ lastOk' = IF outcome = "ok" THEN body ELSE lastOk
       /\ content' = r.content
       /\ ret' = r.ret
       /\ all_companies' = IF r.raised THEN all_companies ELSE r.all
       /\ total_pages' = LoopBound(total_pages, r.content)
       /\ fetched' = IF outcome = "ok"
             THEN fetched \o (IF body.hasCompanies THEN body.companies ELSE <<>>)
             ELSE fetched
       /\ pc' = IF r.raised THEN "raised" ELSE "loop"
  /\ nextPage' = nextPage + 1
  /\ UNCHANGED <<results_per_page, keyword, type_rank, reported>>

\* The loop is exhausted: log the count and return all_companies.
FinishStep ==
  /\ pc = "loop"
  /\ nextPage > total_pages
  /\ pc' = "done"
  /\ UNCHANGED <<page, results_per_page, keyword, type_rank, content,
                 all_companies, total_pages, nextPage, ret, requests,
                 outcomes, fetched, reported, lastOk>>

\* ---------------------------------------------------------------- actions
\* The scraper against an API that answers 200 with well-shaped objects.
Start(k) == StartStep(k) /\ UNCHANGED <<httpVars, twinVars>>

Probe ==
  /\ \E outcome \in Outcomes, body \in Bodies : ProbeStep(outcome, body)
  /\ UNCHANGED <<httpVars, twinVars>>

Iterate ==
  /\ \E outcome \in Outcomes, body \in Bodies : IterateStep(outcome, body)
  /\ UNCHANGED <<httpVars, twinVars>>

Finish == FinishStep /\ UNCHANGED <<httpVars, twinVars>>

Next ==
  \/ \E k \in Keywords : Start(k)
  \/ Probe
  \/ Iterate
  \/ Finish

Spec == Init /\ [][Next]_vars

\* The scraper against an API whose 200 responses may carry any JSON value.
ProbeAny ==
  /\ \E outcome \in Outcomes, body \in AnyBodies : ProbeStep(outcome, body)
  /\ UNCHANGED <<httpVars, twinVars>>

IterateAny ==
  /\ \E outcome \in Outcomes, body \in AnyBodies : IterateStep(outcome, body)
  /\ UNCHANGED <<httpVars, twinVars>>

NextMalformed ==
  \/ \E k \in Keywords : Start(k)
  \/ ProbeAny
  \/ IterateAny
  \/ Finish

MalformedSpec == Init /\ [][NextMalformed]_vars

\* The scraper with each fetch resolved into the HTTP attempts of the session.
UsedRetries == IF inFlight THEN attempts ELSE 0

\* Only a 200 response has a body that is decoded.
BodiesFor(s) == IF s = 200 THEN Bodies ELSE {None}

HttpRetry ==
  /\ pc = "probe" \/ (pc = "loop" /\ nextPage <= total_pages)
  /\ \E s \in AttemptResults :
       /\ ShouldRetry(s, UsedRetries)
       /\ lastStatus' = s
  /\ attempts' = UsedRetries + 1
  /\ inFlight' = TRUE
  /\ UNCHANGED <<scraperVars, twinVars>>

ProbeHttp ==
  /\ \E s \in AttemptResults : \E body \in BodiesFor(s) :
       /\ ~ShouldRetry(s, UsedRetries)
       /\ ProbeStep(HttpOutcome(s), body)
       /\ lastStatus' = s
  /\ attempts' = UsedRetries + 1
  /\ inFlight' = FALSE
  /\ UNCHANGED twinVars

IterateHttp ==
  /\ \E s \in AttemptResults : \E body \in BodiesFor(s) :
       /\ ~ShouldRetry(s, UsedRetries)
       /\ IterateStep(HttpOutcome(s), body)
       /\ lastStatus' = s
  /\ attempts' = UsedRetries + 1
  /\ inFlight' = FALSE
  /\ UNCHANGED twinVars

NextRetry ==
  \/ \E k \in Keywords : Start(k)
  \/ HttpRetry
  \/ ProbeHttp
  \/ IterateHttp
  \/ Finish

RetrySpec == Init /\ [][NextRetry]_vars

\* The scraper next to a second one that is constructed anew for every
\* search, is started with the same keyword and receives the same outcomes.
TwinStart(k) ==
  /\ StartStep(k)
  /\ page2' = DefaultPage
  /\ keyword2' = k
  /\ content2' = None
  /\ pc2' = "probe"
  /\ all_companies2' = <<>>
  /\ total_pages2' = 0
  /\ nextPage2' = 1
  /\ requests2' = <<>>
  /\ paired' = TRUE
  /\ UNCHANGED httpVars

TwinProbe ==
  /\ \E outcome \in Outcomes, body \in Bodies :
       /\ ProbeStep(outcome, body)
       /\ LET r2 == ProbeResult(content2, outcome, body) IN
            /\ page2' = ProbePage(page2)
            /\ requests2' = Append(requests2,
                  BuildUrl(DefaultTypeRank, keyword2, ProbePage(page2),
                           DefaultResultsPerPage))
            /\ content2' = r2.content
            /\ total_pages2' = IF r2.raised THEN total_pages2 ELSE r2.total
            /\ pc2' = IF r2.raised THEN "raised" ELSE "loop"
  /\ nextPage2' = 1
  /\ UNCHANGED <<keyword2, all_companies2, paired, httpVars>>

TwinIterate ==
  /\ \E outcome \in Outcomes, body \in Bodies :
       /\ IterateStep(outcome, body)
       /\ IF paired /\ pc2 = "loop" /\ nextPage2 <= total_pages2
            THEN LET r2 == IterateResult(content2, all_companies2, outcome, body) IN
                   /\ page2' = LoopPage(nextPage2)
                   /\ requests2' = Append(requests2,
                         BuildUrl(DefaultTypeRank, keyword2, LoopPage(nextPage2),
                                  DefaultResultsPerPage))
                   /\ content2' = r2.content
                   /\ all_companies2' = IF r2.raised THEN all_companies2 ELSE r2.all
                   /\ total_pages2' = LoopBound(total_pages2, r2.content)
                   /\ pc2' = IF r2.raised THEN "raised" ELSE "loop"
                   /\ nextPage2' = nextPage2 + 1
                   /\ UNCHANGED paired
            ELSE /\ paired' = FALSE
                 /\ UNCHANGED <<page2, requests2, content2, all_companies2,
                                total_pages2, pc2, nextPage2>>
  /\ UNCHANGED <<keyword2, httpVars>>

TwinFinish ==
  /\ FinishStep
  /\ IF paired /\ pc2 = "loop" /\ nextPage2 > total_pages2
       THEN pc2' = "done" /\ UNCHANGED paired
       ELSE paired' = FALSE /\ UNCHANGED pc2
  /\ UNCHANGED <<page2, keyword2, content2, all_companies2, total_pages2,
                 nextPage2, requests2, httpVars>>

NextTwin ==
  \/ \E k \in Keywords : TwinStart(k)
  \/ TwinProbe
  \/ TwinIterate
  \/ TwinFinish

TwinSpec == Init /\ [][NextTwin]_vars

\* A started search keeps running: every fetch ends in one of the outcomes.
SearchStep == Probe \/ Iterate \/ Finish
FairSpec == Spec /\ WF_vars(SearchStep)

\* ------------------------------------------------------ history predicates
LoopFetches == 2..Len(outcomes)
AllLoopOk == \A j \in LoopFetches : outcomes[j] = "ok"
AnyLoopOk == \E j \in LoopFetches : outcomes[j] = "ok"
AllFailed == \A j \in 1..Len(outcomes) : outcomes[j] # "ok"
LoopPagesInOrder ==
  /\ Len(requests) = total_pages + 1
  /\ \A j \in 1..total_pages : requests[j + 1].page = j

\* ------------------------------------------------------------------ claims

\* C1: a loop iteration whose fetch fails appends nothing, so the returned
\* list is as long as the companies of the successful loop fetches together.
C1_FailedPageAddsNothing ==
  pc = "done" => Len(all_companies) = Len(fetched)

\* C2: when the probe reports N >= 1 pages, the search issues N+1 requests:
\* the probe for page 1, then pages 1..N in order, all with the keyword of
\* the search, pageSize 50 and rankKind "best".
C2_FetchSequence ==
  (pc = "done" /\ reported >= 1) =>
    /\ Len(requests) = reported + 1
    /\ requests[1].page = 1
    /\ \A j \in 1..reported : requests[j + 1].page = j
    /\ \A j \in 1..Len(requests) :
         /\ requests[j].keyword = keyword
         /\ requests[j].pageSize = 50
         /\ requests[j].rankKind = "best"

\* C3: when every loop fetch succeeds, the returned list is the
\* concatenation, for pages 1..N in ascending order, of each page's
\* companies in the order received.
C3_ConcatInPageOrder ==
  (pc = "done" /\ AllLoopOk) =>
    /\ LoopPagesInOrder
    /\ all_companies = fetched

C3_Witness ==
  /\ pc = "done"
  /\ AllLoopOk
  /\ outcomes[1] = "ok"
  /\ total_pages = 2
  /\ all_companies = <<"acme", "bolt", "coil">>

\* C4: a failed probe gives a page count of 1 and a search of exactly two
\* fetches, also on an instance that has searched before.
C4_ProbeFailureDefaultsToOne ==
  (pc \in {"loop", "done"} /\ outcomes[1] # "ok") =>
    /\ total_pages = 1
    /\ (pc = "done" => Len(requests) = 2)

\* C5: a probe response with pagination.pages = 0 is treated as one page:
\* one loop fetch, for page 1, is issued.
C5_ZeroPagesClamped ==
  (pc = "done" /\ reported = 0) =>
    /\ total_pages = 1
    /\ Len(requests) = 2
    /\ requests[2].page = 1

\* C6: the probe of every search requests page 1, whatever page the
\* previous search left in self.page.
C6_ProbeRequestsPageOne ==
  Len(requests) >= 1 => requests[1].page = 1

\* C7: a search_companies call that ends in a non-200 status or a transport
\* error leaves self.content as it was, returns None and does not raise.
C7_FailedFetchKeepsEnvelope ==
  [][(Len(requests') = Len(requests) + 1 /\ outcomes'[Len(outcomes')] # "ok")
       => (content' = content /\ ret' = None /\ pc' # "raised")]_vars

C7_Witness ==
  /\ Len(outcomes) >= 2
  /\ outcomes[Len(outcomes)] = "non200"
  /\ content.present
  /\ content.companies # <<>>
  /\ ret = None

\* C8: no failed fetch aborts the search: the loop fetches pages
\* 1..total_pages whatever the outcomes, never more than total_pages + 1
\* fetches are made, and a started search returns.
C8_NeverAbortsAndTerminates ==
  /\ [](pc = "done" => LoopPagesInOrder)
  /\ [](pc \in {"loop", "done"} => Len(requests) <= total_pages + 1)
  /\ (pc = "probe" ~> pc = "done")

C8_Witness ==
  /\ pc = "done"
  /\ total_pages = 2
  /\ outcomes[2] = "exc"
  /\ outcomes[3] = "non200"

\* C9: if every fetch of a search fails, the returned list is empty.
C9_AllFailuresGiveEmpty ==
  (pc = "done" /\ AllFailed) => all_companies = <<>>

\* C10 as stated: the returned list is empty only if every loop fetch
\* failed, or the page count stayed at 1 or less and the single page-1 fetch
\* failed.
C10_EmptyOnlyIfAllFailed ==
  (pc = "done" /\ all_companies = <<>>) =>
    \/ ~AnyLoopOk
    \/ (total_pages <= 1 /\ Len(outcomes) = 2 /\ outcomes[2] # "ok")

\* C10 amended: the returned list is empty only if every loop fetch failed
\* or returned a page with no companies.
C10_EmptyOnlyIfNothingFetched ==
  (pc = "done" /\ all_companies = <<>>) => fetched = <<>>

C10_Witness ==
  /\ pc = "done"
  /\ all_companies = <<>>
  /\ AnyLoopOk
  /\ total_pages = 2

\* C11: extraction never raises, whatever the envelope holds: no error
\* leaves paginated_search.
C11_ExtractionNeverRaises ==
  pc # "raised"

\* C12: the envelope is the body of the most recent fetch that returned 200,
\* or absent if none has: replaced wholesale, never merged.
C12_EnvelopeIsLastOkBody ==
  content = lastOk

C12_Witness ==
  /\ outcomes = <<"ok", "ok", "non200">>
  /\ content.hasPagination
  /\ ~content.hasCompanies
  /\ total_pages = 2

CompaniesOf(b) == IF b.present /\ b.hasCompanies THEN b.companies ELSE <<>>

\* C14: each loop iteration appends the companies of the envelope held at
\* that moment, i.e. of the most recent successful fetch; it appends nothing
\* only when no fetch has succeeded or that body has no companies.
C14_AppendsHeldEnvelope ==
  [][(Len(requests) >= 1 /\ Len(requests') = Len(requests) + 1) =>
       /\ all_companies' = all_companies \o CompaniesOf(lastOk')
       /\ (all_companies' = all_companies =>
             (~lastOk'.present \/ CompaniesOf(lastOk') = <<>>))]_vars

C14_Witness ==
  /\ Len(outcomes) = 3
  /\ outcomes[2] = "ok"
  /\ outcomes[3] = "exc"
  /\ all_companies = <<"coil", "coil">>
  /\ fetched = <<"coil">>

PagesOf(c) ==
  IF c.present /\ c.hasPagination /\ c.hasPages THEN c.pages ELSE 1

\* C15: the page count is read once, from the envelope held right after the
\* probe; the loop runs that many times whatever later responses report.
C15_PageCountReadOnce ==
  [][/\ (pc = "probe" /\ pc' = "loop") => total_pages' = PagesOf(content')
     /\ pc = "loop" => total_pages' = total_pages
     /\ pc' = "done" => Len(requests') = total_pages' + 1]_vars

C15_Witness ==
  /\ pc = "done"
  /\ total_pages = 1
  /\ outcomes = <<"ok", "ok">>
  /\ content.hasPages
  /\ content.pages = 2

\* C16: a search's requests and returned list depend only on the keyword and
\* the outcomes received: a scraper that has searched before and a new one,
\* given the same keyword and outcomes, issue the same requests and return
\* the same list.
C16_OutcomeIndependentOfHistory ==
  (pc = "done" /\ paired) =>
    /\ requests2 = requests
    /\ all_companies2 = all_companies

\* C17: during a search only start writes keyword, before the first fetch;
\* results_per_page and type_rank are never written; the probe leaves page
\* alone and the j-th loop pass sets page to j, so page is total_pages when
\* a search of at least one page returns.
C17_QueryStateFrame ==
  [][/\ results_per_page' = results_per_page
     /\ type_rank' = type_rank
     /\ pc \in {"probe", "loop"} => keyword' = keyword
     /\ pc \in {"idle", "done", "probe"} => page' = page
     /\ (pc = "loop" /\ pc' = "loop") => page' = Len(requests)
     /\ (pc' = "done" /\ total_pages' >= 1) => page' = total_pages']_vars

C17_Witness ==
  /\ pc = "done"
  /\ total_pages = 2
  /\ page = 2
  /\ keyword = "whey"
  /\ results_per_page = 50
  /\ type_rank = "best"
  /\ Len(requests) = 3

====
